---- MODULE Spec2Model ----
(***************************************************************************)
(* PyTierFS: the tier worker (CORE/tiers/__init__.py: manage_tier, Tier,   *)
(* multicall_threader) over the drive interface                            *)
(* (CORE/tiers/fs_interface/etc.py: Interface).                            *)
(*                                                                         *)
(* Reading of the sources.  The sources are a draft with slips that stop a *)
(* statement from executing at all, whatever its input.  Each such         *)
(* statement is read as the reference it evidently stands for; every       *)
(* decision the code takes (guards, comparison operators, statement order, *)
(* which exceptions are caught, which results are sent, what is a copy and *)
(* what is the live object) is kept as written.  The slips so read:        *)
(*   tiers:40   "except as e"            -> except Exception as e           *)
(*   tiers:58   "self.tier_settings - x" -> self.tier_settings = x          *)
(*   tiers:64.. "self.drives.keys()[0]"  -> first key in insertion order    *)
(*   tiers:100  annotation ": src"       -> ignored                         *)
(*   tiers:111  "self.self.drives" in the text of the OSError -> OSError    *)
(*   tiers:221  "use_queue()"            -> use_queue                       *)
(*   tiers:257  "threads[each]"          -> each                            *)
(*   tiers:261  "if" with no body        -> a test with no effect           *)
(*   tiers:281  "tier_obj.check_file_exists" -> tier_obj.file_exists        *)
(*   etc:83     "drive, mountpoint"      -> self.drive, self.prefix         *)
(*   etc:213    open mode "b+"           -> "rb+"                           *)
(*   etc:238    "new_loc" unbound        -> _get_relative_path(file_path)   *)
(*   etc:249    "output[each1][...]"     -> file_path                       *)
(*   etc:320-26 json not imported, "blockdevices" indexing -> the numbers   *)
(*   tiers:154  "self.drive[...]"        -> self.drives[...]                *)
(*   etc:304    "except CalledProcessError" -> subproc.CalledProcessError   *)
(*   etc:349    "self.drives" (Interface has none) -> self.index            *)
(*   CORE:32    "tiers = {}" hides the module tiers -> the module's        *)
(*              manage_tier is the target of every worker                  *)
(*                                                                         *)
(* The operating system is the collaborator: a drive's files are a tree    *)
(* (disk), os.remove / shutil.copy / os.listdir / open act on that tree    *)
(* and raise what POSIX raises for the state of the tree; lsblk reports    *)
(* the byte counts of that tree.  A path given to an os call addresses the *)
(* file of that drive at the relative path.  umount succeeds on a mounted  *)
(* drive and is refused on one that is not mounted.  Node metadata other   *)
(* than type, size and access_count is not modelled.                       *)
(*                                                                         *)
(* Text is a sequence of one-character strings, so that splitting,         *)
(* joining and prefix stripping are computed as the code computes them.    *)
(***************************************************************************)
EXTENDS Integers, Sequences, FiniteSets, TLC

(***************************************************************************)
(* Text                                                                    *)
(***************************************************************************)
SLASH == "/"

\* path[:n]
Take(s, n) == SubSeq(s, 1, IF n < Len(s) THEN n ELSE Len(s))

\* path[n:]
Drop(s, n) == IF n >= Len(s) THEN << >> ELSE SubSeq(s, n + 1, Len(s))

\* index of the first sep in s, 0 when there is none
RECURSIVE FirstAt(_, _, _)
FirstAt(s, sep, i) ==
    IF i > Len(s) THEN 0
    ELSE IF s[i] = sep THEN i
    ELSE FirstAt(s, sep, i + 1)

\* str.split(sep): "" gives [""], "a//b" gives ["a", "", "b"]
RECURSIVE Split(_, _)
Split(s, sep) ==
    LET i == FirstAt(s, sep, 1)
    IN  IF i = 0 THEN << s >>
        ELSE << Take(s, i - 1) >> \o Split(Drop(s, i), sep)

\* sep.join(list)
RECURSIVE Join(_, _)
Join(list, sep) ==
    IF Len(list) = 0 THEN << >>
    ELSE IF Len(list) = 1 THEN list[1]
    ELSE list[1] \o << sep >> \o Join(Tail(list), sep)

\* list[:-1]
Front(list) == IF Len(list) = 0 THEN << >> ELSE SubSeq(list, 1, Len(list) - 1)

\* list[-1]
Last(list) == list[Len(list)]

\* command[0].upper() on the tags the orchestrator can send
Upper(tag) ==
    CASE tag = "shutdown" -> "SHUTDOWN"
      [] tag = "bogus"    -> "BOGUS"
      [] OTHER            -> tag

(***************************************************************************)
(* Results of calls: exc is "" when the call returns, else the class of    *)
(* the exception it raises; val is what it returns.                        *)
(***************************************************************************)
Ret(v) == [exc |-> "", val |-> v]
Raise(e) == [exc |-> e, val |-> 0]

\* Values that travel (returned by a method, put on a queue, sent on the pipe)
PyNone == [t |-> "none"]
PyBool(b) == [t |-> "bool", v |-> b]
PyNode(n) == [t |-> "node", v |-> n]
PyStream == [t |-> "stream"]
PyIndex(m) == [t |-> "index", v |-> m]
\* the dicts {"ERROR": e}, {"SHUTDOWN": True}, {"DRIVE_NAMES": names}
PyDict(key, v) == [t |-> key, v |-> v]

(***************************************************************************)
(* Trees: a mapping name -> node.  On the disk a file is                   *)
(* [type, size] and a directory [type, size, contents]; in an index a file *)
(* carries access_count as well.                                           *)
(***************************************************************************)
EmptyTree == << >>

\* the keys a node dict of the index can have (etc.py:94-106, 119-154)
NodeKeys == { <<"t","y","p","e">>, <<"p","a","t","h">>, <<"s","i","z","e">>,
              <<"c","o","n","t","e","n","t","s">>, <<"u","i","d">>, <<"g","i","d">>,
              <<"a","t","i","m","e">>, <<"m","t","i","m","e">>, <<"c","t","i","m","e">>,
              <<"a","c","c","e","s","s","_","c","o","u","n","t">>,
              <<"f","i","l","e","_","t","y","p","e">> }

(***************************************************************************)
(* Tree helpers (the collaborator's file tree and the index share them).   *)
(* comps is a sequence of names.                                           *)
(***************************************************************************)
RECURSIVE TreeHas(_, _)
TreeHas(tree, comps) ==
    /\ Len(comps) > 0
    /\ comps[1] \in DOMAIN tree
    /\ \/ Len(comps) = 1
       \/ /\ "contents" \in DOMAIN tree[comps[1]]
          /\ TreeHas(tree[comps[1]].contents, Tail(comps))

\* the node at comps; only used where TreeHas(tree, comps)
RECURSIVE TreeGet(_, _)
TreeGet(tree, comps) ==
    IF Len(comps) = 1 THEN tree[comps[1]]
    ELSE TreeGet(tree[comps[1]].contents, Tail(comps))

\* the tree with node put at comps; only used where the parent of comps is a directory of tree
RECURSIVE TreeSet(_, _, _)
TreeSet(tree, comps, node) ==
    IF Len(comps) = 1
    THEN [n \in (DOMAIN tree) \cup {comps[1]} |-> IF n = comps[1] THEN node ELSE tree[n]]
    ELSE [tree EXCEPT ![comps[1]].contents = TreeSet(@, Tail(comps), node)]

\* the tree without the node at comps; only used where TreeHas(tree, comps)
RECURSIVE TreeDel(_, _)
TreeDel(tree, comps) ==
    IF Len(comps) = 1
    THEN [n \in (DOMAIN tree) \ {comps[1]} |-> tree[n]]
    ELSE [tree EXCEPT ![comps[1]].contents = TreeDel(@, Tail(comps))]

\* every path of the tree, as sequences of names
RECURSIVE TreePaths(_)
TreePaths(tree) ==
    UNION { {<< n >>} \cup
            (IF "contents" \in DOMAIN tree[n]
             THEN { << n >> \o p : p \in TreePaths(tree[n].contents) }
             ELSE {})
          : n \in DOMAIN tree }

RECURSIVE SumSizes(_, _)
SumSizes(tree, paths) ==
    IF paths = {} THEN 0
    ELSE LET p == CHOOSE q \in paths : TRUE
             n == TreeGet(tree, p)
         IN  (IF n.type = "file" THEN n.size ELSE 0) + SumSizes(tree, paths \ {p})

\* the names of a POSIX path: empty components do not count
DiskPath(rel) == SelectSeq(Split(rel, SLASH), LAMBDA c : c # << >>)

(***************************************************************************)
(* Interface (etc.py).  A drive d is                                       *)
(*   [prefix, size, disk, index, index_time, attached]                     *)
(* where disk is the collaborator's tree of the device and the rest are    *)
(* the fields of the Interface object.  Megabyte quantities (size,         *)
(* get_used, get_free) are carried as their byte counts: the code divides  *)
(* the byte counts lsblk reports by 1024**2, and a comparison of such a    *)
(* quantity q with a plain number n, q > n, is written q > n * Mega.       *)
(***************************************************************************)
\* 1024**2
Mega == 1048576

\* what the os calls see at the mount point: the device's tree while mounted
Visible(d) == IF d.attached THEN d.disk ELSE EmptyTree

\* index_folder_single + index: the tree as found, files with access_count 0
RECURSIVE index_folder(_)
index_folder(tree) ==
    [n \in DOMAIN tree |->
        IF tree[n].type = "dir"
        THEN [type |-> "dir", size |-> tree[n].size, contents |-> index_folder(tree[n].contents)]
        ELSE [type |-> "file", size |-> tree[n].size, access_count |-> 0]]

refresh_index(d, now) ==
    [exc |-> "", val |-> PyNone,
     d |-> [d EXCEPT !.index = index_folder(Visible(d)), !.index_time = now]]

\* a variant that takes the snapshot from the device instead of the index; C17 must tell
\* it from get_index
get_index_FromDisk(d) == index_folder(Visible(d))

\* copy.deepcopy(self.index): the same value in a new object
get_index(d) == d.index

_get_relative_path(d, path) ==
    IF d.prefix # Take(path, Len(d.prefix))
    THEN IF Len(path) = 0 THEN Raise("IndexError")
         ELSE IF path[1] = SLASH THEN Ret(Drop(path, 1))
         ELSE Ret(path)
    ELSE Ret(Drop(path, Len(d.prefix) + 1))

RECURSIVE get_node_walk(_, _, _)
get_node_walk(current_dict, folder_list, count) ==
    LET folder == folder_list[count]
    IN  IF folder \in DOMAIN current_dict
        THEN IF count < Len(folder_list)
             THEN IF "contents" \in DOMAIN current_dict[folder]
                  THEN get_node_walk(current_dict[folder].contents, folder_list, count + 1)
                  ELSE Raise("FileNotFoundError")
             ELSE Ret(current_dict[folder])
        ELSE Raise("FileNotFoundError")

\* the node returned belongs to a deep copy of the index
get_node(d, location) ==
    LET new_loc == _get_relative_path(d, location)
    IN  IF new_loc.exc # "" THEN new_loc
        ELSE get_node_walk(d.index, Split(new_loc.val, SLASH), 1)

check_file_exists(d, file_path) ==
    LET r == get_node(d, file_path)
    IN  IF r.exc = "" THEN Ret(TRUE)
        ELSE IF r.exc = "FileNotFoundError" THEN Ret(FALSE)
        ELSE Raise(r.exc)

_set_index(d, index) ==
    [exc |-> "", val |-> PyNone, d |-> [d EXCEPT !.index = index]]

\* lsblk fsused (bytes)
get_used(d) == SumSizes(Visible(d), TreePaths(Visible(d)))

get_free(d) == d.size - get_used(d)

\* the keys of a node dict
KeysOf(node) ==
    IF "contents" \in DOMAIN node
    THEN NodeKeys \ { <<"a","c","c","e","s","s","_","c","o","u","n","t">>,
                      <<"f","i","l","e","_","t","y","p","e">> }
    ELSE NodeKeys \ { <<"c","o","n","t","e","n","t","s">> }

Fail(e, d) == [exc |-> e, val |-> PyNone, d |-> d]
Done(v, d) == [exc |-> "", val |-> v, d |-> d]

(***************************************************************************)
(* The collaborator's calls on a drive                                     *)
(***************************************************************************)
\* os.remove(path)
os_remove(d, rel) ==
    LET comps == DiskPath(rel)
    IN  IF ~TreeHas(Visible(d), comps) THEN Fail("FileNotFoundError", d)
        ELSE IF TreeGet(Visible(d), comps).type = "dir" THEN Fail("IsADirectoryError", d)
        ELSE Done(PyNone, [d EXCEPT !.disk = TreeDel(@, comps)])

\* os.listdir(path), used to tell a directory from a file
os_listdir(d, rel) ==
    LET comps == DiskPath(rel)
    IN  IF Len(comps) = 0 THEN Done(PyNone, d)
        ELSE IF ~TreeHas(Visible(d), comps) THEN Fail("FileNotFoundError", d)
        ELSE IF TreeGet(Visible(d), comps).type = "dir" THEN Done(PyNone, d)
        ELSE Fail("NotADirectoryError", d)

\* the directory a new entry at comps goes into exists
ParentIsDir(tree, comps) ==
    \/ Len(comps) = 1
    \/ /\ Len(comps) > 1
       /\ TreeHas(tree, Front(comps))
       /\ TreeGet(tree, Front(comps)).type = "dir"

\* shutil.copy(source, dest); denied: the collaborator refuses (PermissionError)
shutil_copy(d, source, dest, denied) ==
    LET from == DiskPath(source)
        to   == DiskPath(dest)
        into == IF TreeHas(Visible(d), to) /\ TreeGet(Visible(d), to).type = "dir"
                THEN to \o << Last(from) >>
                ELSE to
    IN  IF ~TreeHas(Visible(d), from) THEN Fail("FileNotFoundError", d)
        ELSE IF TreeGet(Visible(d), from).type = "dir" THEN Fail("IsADirectoryError", d)
        ELSE IF denied THEN Fail("PermissionError", d)
        ELSE IF Len(to) = 0 THEN Fail("FileNotFoundError", d)
        ELSE IF into = from THEN Fail("SameFileError", d)
        ELSE IF ~ParentIsDir(Visible(d), into) THEN Fail("FileNotFoundError", d)
        ELSE IF TreeHas(Visible(d), into) /\ TreeGet(Visible(d), into).type = "dir"
             THEN Fail("IsADirectoryError", d)
        ELSE Done(PyNone, [d EXCEPT !.disk =
                           TreeSet(@, into, [type |-> "file",
                                             size |-> TreeGet(Visible(d), from).size])])

\* open(path, "rb+")
open_rw(d, rel) ==
    LET comps == DiskPath(rel)
    IN  IF ~TreeHas(Visible(d), comps) THEN Fail("FileNotFoundError", d)
        ELSE IF TreeGet(Visible(d), comps).type = "dir" THEN Fail("IsADirectoryError", d)
        ELSE Done(PyStream, d)

\* open(path, "xb"): creates the file, which must not exist
open_x(d, rel) ==
    LET comps == DiskPath(rel)
    IN  IF Len(comps) = 0 THEN Fail("FileNotFoundError", d)
        ELSE IF TreeHas(Visible(d), comps) THEN Fail("FileExistsError", d)
        ELSE IF ~ParentIsDir(Visible(d), comps) THEN Fail("FileNotFoundError", d)
        ELSE Done(PyStream, [d EXCEPT !.disk = TreeSet(@, comps, [type |-> "file", size |-> 0])])

\* dest_stream.write(src_stream.read()): the new file takes the size of the source
stream_write(d, rel, size) ==
    Done(PyNone, [d EXCEPT !.disk = TreeSet(@, DiskPath(rel), [type |-> "file", size |-> size])])

\* umount, then umount -l: both are refused for a mountpoint nothing is mounted on, and
\* the second refusal is not caught
detach(d) ==
    IF d.attached THEN Done(PyNone, [d EXCEPT !.attached = FALSE])
    ELSE Fail("CalledProcessError", d)

(***************************************************************************)
(* Interface: the operations on files                                      *)
(***************************************************************************)
open_file(d, file_path) ==
    LET new_loc == _get_relative_path(d, file_path)
    IN  IF new_loc.exc # "" THEN Fail(new_loc.exc, d)
        ELSE LET here == check_file_exists(d, new_loc.val)
             IN  IF here.exc # "" THEN Fail(here.exc, d)
                 ELSE IF ~here.val THEN Fail("FileNotFoundError", d)
                 ELSE LET node == get_node(d, file_path)
                      IN  IF node.exc # "" THEN Fail(node.exc, d)
                          \* ["access_count"] += 1 on the node of the copy
                          ELSE IF "access_count" \notin DOMAIN node.val THEN Fail("KeyError", d)
                          ELSE open_rw(d, new_loc.val)

delete_file(d, file_path, now) ==
    LET new_loc == _get_relative_path(d, file_path)
        \* del parent_node[file_name]: a key of the node dict of the copy
        Unlinked(gone, parent_node, file_name) ==
            IF parent_node.exc # "" THEN Fail(parent_node.exc, gone.d)
            ELSE IF file_name \notin KeysOf(parent_node.val) THEN Fail("KeyError", gone.d)
            ELSE Done(PyNone, [gone.d EXCEPT !.index_time = now])
        Removed(gone) ==
            IF gone.exc # "" THEN gone
            ELSE Unlinked(gone,
                          get_node(gone.d, Join(Front(Split(new_loc.val, SLASH)), SLASH)),
                          Last(Split(new_loc.val, SLASH)))
        Found(here) ==
            IF here.exc # "" THEN Fail(here.exc, d)
            ELSE IF ~here.val THEN Fail("FileNotFoundError", d)
            ELSE Removed(os_remove(d, new_loc.val))
    IN  IF new_loc.exc # "" THEN Fail(new_loc.exc, d)
        ELSE Found(check_file_exists(d, new_loc.val))

_create_new_node(d, file_path, now) ==
    LET new_loc == _get_relative_path(d, file_path)
    IN  IF new_loc.exc # "" THEN Fail(new_loc.exc, d)
        ELSE LET new_path    == Join(Front(Split(new_loc.val, SLASH)), SLASH)
                 parent_node == get_node(d, new_path)
                 kind        == os_listdir(d, new_loc.val)
             IN  IF parent_node.exc # "" THEN Fail(parent_node.exc, d)
                 \* parent_node[file_name] = {...}: set on the node dict of the copy
                 ELSE IF kind.exc \notin {"", "NotADirectoryError"} THEN Fail(kind.exc, d)
                 ELSE Done(PyNone, [d EXCEPT !.index_time = now])

make_new_file(d, file_path, now) ==
    LET new_loc == _get_relative_path(d, file_path)
        Made(made) == IF made.exc # "" THEN made ELSE open_x(made.d, new_loc.val)
    IN  IF new_loc.exc # "" THEN Fail(new_loc.exc, d)
        ELSE Made(_create_new_node(d, file_path, now))

copy_file(d, source_path, dest_path, now, denied) ==
    LET source == _get_relative_path(d, source_path)
        dest   == _get_relative_path(d, dest_path)
        Made(made) == IF made.exc # "" THEN made ELSE Done(PyBool(TRUE), made.d)
        Copied(copied) ==
            IF copied.exc = "PermissionError" THEN Done(PyBool(FALSE), d)
            ELSE IF copied.exc # "" THEN copied
            ELSE Made(_create_new_node(copied.d, dest_path, now))
        Found(here) ==
            IF here.exc # "" THEN Fail(here.exc, d)
            ELSE IF ~here.val THEN Fail("FileNotFoundError", d)
            ELSE Copied(shutil_copy(d, source.val, dest.val, denied))
    IN  IF source.exc # "" THEN Fail(source.exc, d)
        ELSE IF dest.exc # "" THEN Fail(dest.exc, d)
        ELSE Found(check_file_exists(d, source.val))

\* the key "contents"
CONTENTS == <<"c","o","n","t","e","n","t","s">>

\* each["access_count"] -= 1 (etc:350-351) on every file node of tree
RECURSIVE Lowered(_)
Lowered(tree) ==
    [n \in DOMAIN tree |->
        IF tree[n].type = "dir"
        THEN [tree[n] EXCEPT !.contents = Lowered(@)]
        ELSE [tree[n] EXCEPT !.access_count = @ - 1]]

\* a variant in which get_files collects every file node of the live index; C28 must
\* tell it from drop_access_points
drop_access_points_Collecting(d) == Done(PyNone, [d EXCEPT !.index = Lowered(@)])

\* get_files(data) looks for the key "contents" in the dict it is given, which is the
\* root mapping name -> node: without an entry of that name no file is collected and no
\* counter changes; with one, the loop takes the keys of that node for nodes
drop_access_points(d) ==
    IF CONTENTS \in DOMAIN d.index THEN Fail("TypeError", d)
    ELSE Done(PyNone, d)

(***************************************************************************)
(* State                                                                   *)
(***************************************************************************)
VARIABLES
    order,          \* the tier's drive nicknames in configuration order (keys of Tier.drives)
    tier_settings,  \* [fill_method, max_index_age, available_space_file_limit, drop_time]
    drives,         \* nickname -> drive (the device's tree and the Interface object on it)
    ws,             \* where manage_tier is: UNINITIALIZED (tier_obj is None), READY,
                    \* TERMINATED (left the loop by break), CRASHED (left it by an exception)
    pipe_in,        \* commands sent by the orchestrator and not yet received
    pipe_out,       \* what the worker has sent: [for |-> number of the command served, val]
    nrecv,          \* how many commands the worker has received
    nsent,          \* how many commands the orchestrator has sent
    tasks,          \* threads started and still running: [drive, func, arg, stale]
    now,            \* time.time()
    last,           \* the last command served and how serving it ended
    prev_drop_time  \* manage_tier's prev_drop_time: when access points were last dropped

vars == << order, tier_settings, drives, ws, pipe_in, pipe_out, nrecv, nsent, tasks, now, last,
          prev_drop_time >>

(***************************************************************************)
(* multicall_threader and Tier                                             *)
(***************************************************************************)
\* getattr(self.drives[each], func) applied to args, for the functions the tier fans out
DriveCall(func, d, arg, t) ==
    LET Bool(r) == IF r.exc # "" THEN Fail(r.exc, d) ELSE Done(PyBool(r.val), d)
        Node(r) == IF r.exc # "" THEN Fail(r.exc, d) ELSE Done(PyNode(r.val), d)
    IN  CASE func = "refresh_index"     -> refresh_index(d, t)
          [] func = "check_file_exists" -> Bool(check_file_exists(d, arg))
          [] func = "open_file"         -> open_file(d, arg)
          [] func = "delete_file"       -> delete_file(d, arg, t)
          [] func = "get_node"          -> Node(get_node(d, arg))
          [] func = "drop_access_points" -> drop_access_points(d)

\* One thread: the drive afterwards and what it put on its queue (PyNone: nothing).
\* An exception ends the thread (ignore_errors or not): nothing is put.
multicall_threader(func, d, arg, use_queue, ignore_errors, t) ==
    LET Ended(output) ==
            [d |-> output.d,
             put |-> IF output.exc = "" /\ use_queue /\ output.val # PyNone
                     THEN output.val ELSE PyNone]
    IN  Ended(DriveCall(func, d, arg, t))

\* first entry of names whose queue is not empty
RECURSIVE FirstPut(_, _)
FirstPut(names, queue) ==
    IF Len(names) = 0 THEN PyNone
    ELSE IF queue[names[1]] # PyNone THEN queue[names[1]]
    ELSE FirstPut(Tail(names), queue)

Range(seq) == { seq[i] : i \in 1..Len(seq) }

\* fin: the threads that have ended when the parent looks at them.  A thread that is
\* alive then is not joined: it keeps running (spawned) and its queue is read empty.
multithreader(drv, func, arg, use_queue, ignore_errors, fin, t) ==
    LET Joined(threads) ==
            [exc |-> "",
             val |-> IF use_queue
                     THEN FirstPut(order, [n \in Range(order) |->
                                              IF n \in fin THEN threads[n].put ELSE PyNone])
                     ELSE PyNone,
             drv |-> [n \in Range(order) |-> IF n \in fin THEN threads[n].d ELSE drv[n]],
             spawned |-> { [drive |-> n, func |-> func, arg |-> arg, stale |-> FALSE]
                           : n \in Range(order) \ fin }]
    IN  Joined([n \in Range(order) |->
                   multicall_threader(func, drv[n], arg, use_queue, ignore_errors, t)])

TFail(e, drv) == [exc |-> e, val |-> PyNone, drv |-> drv, spawned |-> {}]
TDone(v, drv) == [exc |-> "", val |-> v, drv |-> drv, spawned |-> {}]
\* the result r of a call on drive n, as the result of the tier's method
OnDrive(drv, n, r) == [exc |-> r.exc, val |-> r.val, drv |-> [drv EXCEPT ![n] = r.d], spawned |-> {}]

Tier_index(drv, fin, t) ==
    LET First(fan) ==
            [exc |-> "", val |-> PyNone,
             drv |-> [fan.drv EXCEPT ![order[1]] = refresh_index(fan.drv[order[1]], t).d],
             spawned |-> fan.spawned]
    IN  First(IF Len(order) > 1
              THEN multithreader(drv, "refresh_index", << >>, TRUE, FALSE, fin, t)
              ELSE TDone(PyNone, drv))

get_drive_names == order

apply_index(drv, index) ==
    TDone(PyNone, [n \in Range(order) |->
                      IF n \in DOMAIN index THEN _set_index(drv[n], index[n]).d ELSE drv[n]])

file_exists(drv, file_path, fin, t) ==
    IF Len(order) > 1
    THEN multithreader(drv, "check_file_exists", file_path, TRUE, FALSE, fin, t)
    ELSE OnDrive(drv, order[1], DriveCall("check_file_exists", drv[order[1]], file_path, t))

\* try: ... except FileNotFoundError: return None
CatchNotFound(r) == IF r.exc = "FileNotFoundError" THEN [r EXCEPT !.exc = "", !.val = PyNone] ELSE r

Tier_open_file(drv, file_path, fin, t) ==
    IF Len(order) > 1
    THEN multithreader(drv, "open_file", file_path, TRUE, TRUE, fin, t)
    ELSE CatchNotFound(OnDrive(drv, order[1], open_file(drv[order[1]], file_path)))

remove_file(drv, file_path, fin, t) ==
    IF Len(order) > 1
    THEN multithreader(drv, "delete_file", file_path, TRUE, TRUE, fin, t)
    ELSE CatchNotFound(OnDrive(drv, order[1], delete_file(drv[order[1]], file_path, t)))

get_file_info(drv, path, fin, t) ==
    IF Len(order) > 1
    THEN multithreader(drv, "get_node", path, TRUE, TRUE, fin, t)
    ELSE CatchNotFound(OnDrive(drv, order[1], DriveCall("get_node", drv[order[1]], path, t)))

Tier_drop_access_points(drv, fin, t) ==
    IF Len(order) > 1
    THEN multithreader(drv, "drop_access_points", << >>, FALSE, FALSE, fin, t)
    ELSE OnDrive(drv, order[1], drop_access_points(drv[order[1]]))

\* tiers:143-146: most = ["", 0]; a later drive replaces it only with strictly more space
RECURSIVE MostSpace(_, _, _)
MostSpace(names, space_amounts, most) ==
    IF Len(names) = 0 THEN most
    ELSE MostSpace(Tail(names), space_amounts,
                   IF space_amounts[names[1]] > most[2]
                   THEN << names[1], space_amounts[names[1]] >>
                   ELSE most)

\* tiers:138-153: the drive a cross-drive copy goes to; pick is what rand.sample draws
SelectDrive(drv, allowed_drives, pick) ==
    IF tier_settings.fill_method = "largest_first"
    THEN MostSpace(allowed_drives, [n \in Range(allowed_drives) |-> get_free(drv[n])],
                   << "", 0 >>)[1]
    ELSE IF pick \in Range(allowed_drives) THEN pick
    ELSE allowed_drives[1]

\* a variant that leaves the comparison out; C9 must tell it from HasRoom
HasRoom_Unchecked(d, size) == TRUE

\* whether a drive has room for a file of that size (tiers:109, 124)
HasRoom(d, size) == get_free(d) > size * Mega

\* tiers:154-159: stream the file from the resident drive to the selected one
CrossCopy(drv, from, to, src_path, dest_path, size, t) ==
    LET Written(dest_stream) ==
            IF dest_stream.exc # "" THEN OnDrive(drv, to, dest_stream)
            ELSE TDone(PyBool(TRUE),
                       [drv EXCEPT ![to] =
                           stream_write(dest_stream.d,
                                        _get_relative_path(dest_stream.d, dest_path).val,
                                        size).d])
        Opened(src_stream) ==
            IF src_stream.exc # "" THEN OnDrive(drv, from, src_stream)
            ELSE Written(make_new_file(drv[to], dest_path, t))
    IN  Opened(open_file(drv[from], src_path))

\* denied: shutil.copy is refused; pick: the drive rand.sample draws
Tier_copy_file(drv, src_path, dest_path, t, denied, pick) ==
    LET \* the copy on one drive (tiers:110, 136)
        Within(n) == OnDrive(drv, n, copy_file(drv[n], src_path, dest_path, t, denied))
        Single(node) ==
            IF node.exc # "" THEN TFail(node.exc, drv)
            ELSE IF HasRoom(drv[order[1]], node.val.size) THEN Within(order[1])
            ELSE TFail("OSError", drv)
        Placed(resident_drives, allowed_drives, both, file_info) ==
            IF Len(allowed_drives) = 0 THEN TFail("OSError", drv)
            ELSE IF Len(both) > 0 THEN Within(both[1])
            ELSE CrossCopy(drv, resident_drives[1], SelectDrive(drv, allowed_drives, pick),
                           src_path, dest_path, file_info.size, t)
        Allowed(resident_drives, allowed_drives, file_info) ==
            Placed(resident_drives, allowed_drives,
                   SelectSeq(resident_drives, LAMBDA n : n \in Range(allowed_drives)),
                   file_info)
        Sized(resident_drives, file_info) ==
            Allowed(resident_drives,
                    SelectSeq(order, LAMBDA n : HasRoom(drv[n], file_info.size)),
                    file_info)
        Resident(resident_drives) ==
            IF Len(resident_drives) = 0 THEN TFail("FileNotFoundError", drv)
            ELSE Sized(resident_drives, get_node(drv[resident_drives[1]], src_path).val)
    IN  IF Len(order) = 1
        THEN Single(get_node(drv[order[1]], src_path))
        ELSE Resident(SelectSeq(order, LAMBDA n : check_file_exists(drv[n], src_path).val))

\* copy_file, then remove_file whatever copy_file returned; returns None
move_file(drv, src_path, dest_path, t, denied, pick, fin) ==
    LET Removed(r) == IF r.exc # "" THEN r ELSE [r EXCEPT !.val = PyNone]
        Copied(r)  == IF r.exc # "" THEN r
                      ELSE Removed(remove_file(r.drv, src_path, fin, t))
    IN  Copied(Tier_copy_file(drv, src_path, dest_path, t, denied, pick))

\* Tier.make_new_file; pick is what rand.sample draws.  get_used() is megabytes, so
\* get_used() > limit is written on the byte count
Tier_make_new_file(drv, path, t, pick) ==
    LET Over(n) == get_used(drv[n]) > tier_settings.available_space_file_limit * Mega
        On(n) == OnDrive(drv, n, make_new_file(drv[n], path, t))
        Lucky(allowed_drives) ==
            IF Len(allowed_drives) = 0 THEN TFail("OSError", drv)
            ELSE On(IF pick \in Range(allowed_drives) THEN pick ELSE allowed_drives[1])
    IN  IF Len(order) > 1
        THEN IF Over(order[1]) THEN On(order[1]) ELSE TFail("OSError", drv)
        ELSE Lucky(SelectSeq(order, Over))

\* the loop of dump_index over the drives still to visit
RECURSIVE dump_index_loop(_, _, _)
dump_index_loop(drv, names, master_index) ==
    IF Len(names) = 0 THEN TDone(PyIndex(master_index), drv)
    ELSE LET each     == names[1]
             detached == detach(drv[each])
         IN  IF detached.exc # "" THEN TFail(detached.exc, drv)
             ELSE dump_index_loop([drv EXCEPT ![each] = detached.d], Tail(names),
                                  master_index @@ (each :> get_index(drv[each])))

\* per drive: snapshot the index, then detach the drive
dump_index(drv) == dump_index_loop(drv, order, << >>)

shut_down(drv) == dump_index(drv)

(***************************************************************************)
(* Bounds of the model                                                     *)
(***************************************************************************)
\* commands the orchestrator sends in one run
MaxCmds == 3
\* commands waiting in the pipe at one time
MaxQueue == 1
\* the clock stops here
MaxTime == 1

(***************************************************************************)
(* The configuration and the devices                                       *)
(***************************************************************************)
F == << "f" >>
D == << "d" >>
P_f  == << "f" >>
P_g  == << "g" >>
P_x  == << "x" >>
P_df == << "d", "/", "f" >>
P_dg == << "d", "/", "g" >>

File(size) == [type |-> "file", size |-> size]
Dir(contents) == [type |-> "dir", size |-> 0, contents |-> contents]

\* a root file of 2 bytes and a directory holding a file of 1 byte
TreeFull == (F :> File(2)) @@ (D :> Dir(F :> File(1)))
\* an empty directory
TreeBare == (D :> Dir(EmptyTree))

Nicknames == { "A", "B" }
Prefix(n) == << "/", n >>

\* device sizes (bytes): with TreeFull on it, 3 is a full device, Mega + 3 leaves
\* exactly 1 MB free and Mega + 4 one byte more
Sizes == { 3, Mega + 3, Mega + 4 }

\* max_index_age of the tier (seconds; 300 in the default settings)
MaxIndexAge == 1

\* drop_time of the tier (seconds; 10800 in the default settings)
DropTime == 1

\* available_space_file_limit of the tier (megabytes), as in the default settings
SpaceLimit == 25

\* a device before the worker has mounted it; index and index_time are set by __init__
Device(n, size, disk) ==
    [prefix |-> Prefix(n), size |-> size, disk |-> disk,
     index |-> EmptyTree, index_time |-> 0, attached |-> FALSE]

\* the tiers of the model: one drive, or two of which one holds no file; that one is
\* the second of the tier, or (in one tier) the first.  One tier has a fill_method the
\* code does not know, a full first drive and room on the second
Tiers ==
    { [order |-> << "A" >>, fill_method |-> "random",
       drives |-> ("A" :> Device("A", size, TreeFull))] : size \in Sizes }
    \cup
    { [order |-> << "A", "B" >>, fill_method |-> fill,
       drives |-> ("A" :> Device("A", sizeA, TreeFull)) @@ ("B" :> Device("B", sizeB, diskB))]
      : fill \in { "largest_first", "random" },
        sizeA \in { 3, Mega + 4 },
        sizeB \in { 1, Mega + 4 },
        diskB \in { TreeBare } }
    \cup
    { [order |-> << "B", "A" >>, fill_method |-> "random",
       drives |-> ("A" :> Device("A", Mega + 4, TreeFull)) @@
                  ("B" :> Device("B", Mega + 4, TreeBare))],
      [order |-> << "A", "B" >>, fill_method |-> "smallest_first",
       drives |-> ("A" :> Device("A", 3, TreeFull)) @@
                  ("B" :> Device("B", Mega + 4, TreeBare))] }

Init ==
    /\ \E tier \in Tiers :
          /\ order = tier.order
          /\ tier_settings = [fill_method |-> tier.fill_method, max_index_age |-> MaxIndexAge,
                               available_space_file_limit |-> SpaceLimit, drop_time |-> DropTime]
          /\ drives = tier.drives
    /\ ws = "UNINITIALIZED"
    /\ pipe_in = << >>
    /\ pipe_out = << >>
    /\ nrecv = 0
    /\ nsent = 0
    /\ tasks = {}
    /\ now = 0
    /\ last = [tag |-> "", arg |-> << >>, exc |-> "", val |-> PyNone]
    /\ prev_drop_time = 0

(***************************************************************************)
(* The orchestrator's side of the pipe                                     *)
(***************************************************************************)
Commands ==
    { [tag |-> t, arg |-> << >>] :
        t \in { "STARTUP", "shutdown", "DUMP_INDEX", "REFRESH_INDEX", "GET_DRIVE_NAMES", "bogus" } }
    \cup { [tag |-> t, arg |-> P_df] : t \in { "EXISTS", "GET_FILE_INFO", "OPEN_FILE" } }
    \cup { [tag |-> "DELETE_FILE", arg |-> p] : p \in { P_df, P_f, P_x } }
    \cup { [tag |-> "COPY_FILE", arg |-> a] :
             a \in { << P_df, P_dg >>, << P_f, P_dg >>, << P_x, P_dg >>, << P_df, P_g >> } }
    \cup { [tag |-> "MOVE_FILE", arg |-> a] : a \in { << P_df, P_dg >>, << P_x, P_dg >> } }
    \cup { [tag |-> "APPLY_SAVED_INDEX", arg |-> ("A" :> index_folder(TreeBare))] }

Send(c) ==
    /\ nsent < MaxCmds
    /\ Len(pipe_in) < MaxQueue
    /\ pipe_in' = Append(pipe_in, c)
    /\ nsent' = nsent + 1
    /\ UNCHANGED << order, tier_settings, drives, ws, pipe_out, nrecv, tasks, now, last, prev_drop_time >>

Tick ==
    /\ now < MaxTime
    /\ now' = now + 1
    /\ UNCHANGED << order, tier_settings, drives, ws, pipe_in, pipe_out, nrecv, nsent, tasks, last,
                    prev_drop_time >>

(***************************************************************************)
(* manage_tier                                                             *)
(***************************************************************************)
\* Tier.__init__: one Interface per drive: mount, empty index, refresh_index
Tier(drv, t) ==
    [n \in Range(order) |->
        refresh_index([drv[n] EXCEPT !.attached = TRUE, !.index = EmptyTree, !.index_time = 0],
                      t).d]

\* the tags manage_tier tests for (tiers:267-296)
KnownTags == { "GET_FILE_INFO", "OPEN_FILE", "COPY_FILE", "MOVE_FILE", "DELETE_FILE", "EXISTS",
               "SHUTDOWN", "DUMP_INDEX", "REFRESH_INDEX", "APPLY_SAVED_INDEX",
               "GET_DRIVE_NAMES", "STARTUP" }

\* What serving one command does: r is the result of the tier's method, sends what goes
\* down the pipe, stop whether the loop is left by break.
Served(r, sends, stop) == [r |-> r, sends |-> sends, stop |-> stop, started |-> FALSE]

\* a variant whose else branch sends nothing; C5 must tell it from NotRecognized
NotRecognized_Silent(drv) == Served(TDone(PyNone, drv), << >>, FALSE)

\* the else branch (tiers:299-300)
NotRecognized(drv) ==
    Served(TDone(PyNone, drv), << PyDict("ERROR", "COMMAND_NOT_RECOGNIZED") >>, FALSE)

\* pipe.send(<what the method returned>)
Sent(r) == Served(r, << r.val >>, FALSE)

\* the DELETE_FILE branch: the result is not sent; only FileNotFoundError is answered
Deleted(r) ==
    IF r.exc = "FileNotFoundError"
    THEN Served([r EXCEPT !.exc = ""], << PyDict("ERROR", "FILE_NOT_FOUND") >>, FALSE)
    ELSE Served(r, << >>, FALSE)

\* the SHUTDOWN branch: the index, the acknowledgment, break
Stopped(r) == Served(r, << r.val, PyDict("SHUTDOWN", TRUE) >>, TRUE)

\* the STARTUP branch: a new Tier, then pipe.send(True)
Started(drv, t) ==
    [Served(TDone(PyNone, Tier(drv, t)), << PyBool(TRUE) >>, FALSE) EXCEPT !.started = TRUE]

\* the branch of the if/elif chain (tiers:267-300) with tier_obj set
Dispatch(drv, tag, arg, t, fin, denied, pick) ==
    CASE tag = "GET_FILE_INFO" -> Sent(get_file_info(drv, arg, fin, t))
      [] tag = "OPEN_FILE" -> Sent(Tier_open_file(drv, arg, fin, t))
      [] tag = "COPY_FILE" -> Sent(Tier_copy_file(drv, arg[1], arg[2], t, denied, pick))
      [] tag = "MOVE_FILE" -> Sent(move_file(drv, arg[1], arg[2], t, denied, pick, fin))
      [] tag = "DELETE_FILE" -> Deleted(remove_file(drv, arg, fin, t))
      [] tag = "EXISTS" -> Sent(file_exists(drv, arg, fin, t))
      [] tag = "SHUTDOWN" -> Stopped(shut_down(drv))
      [] tag = "DUMP_INDEX" -> Sent(dump_index(drv))
      [] tag = "REFRESH_INDEX" -> Sent(Tier_index(drv, fin, t))
      [] tag = "APPLY_SAVED_INDEX" -> Sent(apply_index(drv, arg))
      [] tag = "GET_DRIVE_NAMES" ->
            Served(TDone(PyNone, drv), << PyDict("DRIVE_NAMES", get_drive_names) >>, FALSE)
      [] tag = "STARTUP" -> Started(drv, t)
      [] OTHER -> NotRecognized(drv)

\* the same chain while tier_obj is None: every branch that uses tier_obj raises
DispatchNone(drv, tag, arg, t) ==
    IF tag \in KnownTags \ { "STARTUP" }
    THEN Served(TFail("AttributeError", drv), << >>, FALSE)
    ELSE IF tag = "STARTUP" THEN Started(drv, t)
    ELSE NotRecognized(drv)

\* the choices a command leaves open: which threads have ended when the fan-out
\* looks (fin), whether shutil.copy is refused (denied), what rand.sample draws (pick)
Choices(tag) ==
    [ fin    : IF /\ Len(order) > 1
                  /\ ws = "READY"
                  /\ tag \in { "GET_FILE_INFO", "OPEN_FILE", "DELETE_FILE", "EXISTS",
                               "REFRESH_INDEX", "MOVE_FILE" }
               THEN SUBSET Range(order) ELSE { {} },
      denied : IF ws = "READY" /\ tag \in { "COPY_FILE", "MOVE_FILE" }
               THEN BOOLEAN ELSE { FALSE },
      pick   : IF ws = "READY" /\ tag \in { "COPY_FILE", "MOVE_FILE" }
               THEN Range(order) ELSE { order[1] } ]

\* pipe.poll() is true: command = pipe.recv(), then the if/elif chain
Recv ==
    /\ ws \in { "UNINITIALIZED", "READY" }
    /\ pipe_in # << >>
    /\ LET command == Head(pipe_in)
           tag     == Upper(command.tag)
       IN  \E ch \in Choices(tag) :
           \E out \in { IF ws = "UNINITIALIZED"
                        THEN DispatchNone(drives, tag, command.arg, now)
                        ELSE Dispatch(drives, tag, command.arg, now,
                                      ch.fin, ch.denied, ch.pick) } :
               /\ drives' = out.r.drv
               /\ tasks' = (IF out.started THEN { [k EXCEPT !.stale = TRUE] : k \in tasks }
                            ELSE tasks) \cup out.r.spawned
               /\ pipe_out' = IF out.r.exc # "" THEN pipe_out
                              ELSE pipe_out \o [i \in 1..Len(out.sends) |->
                                                  [for |-> nrecv + 1, val |-> out.sends[i]]]
               /\ ws' = IF out.r.exc # "" THEN "CRASHED"
                        ELSE IF out.stop THEN "TERMINATED"
                        ELSE IF out.started THEN "READY"
                        ELSE ws
               /\ last' = [tag |-> tag, arg |-> command.arg, exc |-> out.r.exc,
                           val |-> out.r.val]
    /\ pipe_in' = Tail(pipe_in)
    /\ nrecv' = nrecv + 1
    /\ UNCHANGED << order, tier_settings, nsent, now, prev_drop_time >>

\* pipe.poll() is false: the refreshes that are due are started, each on a thread
\* of its own; none is waited for (tiers:256-258 joins only threads that have ended).
\* The test of prev_drop_time against drop_time (tiers:261) has nothing to do:
\* no access point is dropped and prev_drop_time is not assigned
Idle ==
    /\ ws \in { "UNINITIALIZED", "READY" }
    /\ pipe_in = << >>
    /\ IF ws = "UNINITIALIZED"
       THEN \* tier_obj.get_index_ages() on None
            /\ ws' = "CRASHED"
            /\ UNCHANGED tasks
       ELSE /\ tasks' = tasks \cup
                  { [drive |-> n, func |-> "refresh_index", arg |-> << >>, stale |-> FALSE]
                    : n \in { m \in Range(order) :
                                now - drives[m].index_time >= tier_settings.max_index_age } }
            /\ UNCHANGED ws
    /\ UNCHANGED << order, tier_settings, drives, pipe_in, pipe_out, nrecv, nsent, now, last, prev_drop_time >>

\* a running thread does its call and ends; a thread of a replaced Tier works on
\* Interface objects nothing refers to any more, and only the device keeps what it did
ThreadRun ==
    \E k \in tasks :
        LET Kept(d) == IF k.stale THEN [drives[k.drive] EXCEPT !.disk = d.disk] ELSE d
        IN  /\ drives' = [drives EXCEPT ![k.drive] =
                             Kept(DriveCall(k.func, drives[k.drive], k.arg, now).d)]
            /\ tasks' = tasks \ { k }
            /\ UNCHANGED << order, tier_settings, ws, pipe_in, pipe_out, nrecv, nsent, now, last, prev_drop_time >>

Next ==
    \/ \E c \in Commands : Send(c)
    \/ Recv
    \/ Idle
    \/ ThreadRun
    \/ Tick

Spec == Init /\ [][Next]_vars

\* A step of Recv: Recv can be taken whenever its guard holds (every branch of the
\* chain ends, with a result or an exception), and only Recv raises nrecv
Receives ==
    /\ ws \in { "UNINITIALIZED", "READY" }
    /\ pipe_in # << >>
    /\ nrecv' = nrecv + 1

\* The worker's loop keeps running and every thread that was started runs to its end;
\* nothing obliges the orchestrator to send, or time to pass.
SpecFair == Spec /\ WF_nrecv(Receives) /\ WF_vars(Idle) /\ WF_vars(ThreadRun)

(***************************************************************************)
(* The orchestrator of CORE/__init__.py: init starts the worker of every   *)
(* tier and then sends ["STARTUP"] down each pipe.  Every worker has a     *)
(* pipe, a Tier and drives of its own, so one worker and its pipe are      *)
(* followed; the workers started before and after it only lengthen the     *)
(* time between its start and its STARTUP.  The initial state is the       *)
(* worker just started (Init).  Whoever called init sends the later        *)
(* commands.                                                               *)
(***************************************************************************)
\* pipes[each].send(["STARTUP"]): the first message of the pipe
SendStartup ==
    /\ nsent = 0
    /\ Send([tag |-> "STARTUP", arg |-> << >>])

\* the commands that follow once init has returned
SendLater ==
    /\ nsent > 0
    /\ \E c \in Commands : Send(c)

NextStart ==
    \/ SendStartup
    \/ SendLater
    \/ Recv
    \/ Idle
    \/ ThreadRun
    \/ Tick

\* init runs to its end, so the STARTUP is sent; the worker's loop keeps running and
\* every thread that was started runs to its end
SpecStart ==
    /\ Init
    /\ [][NextStart]_vars
    /\ WF_vars(SendStartup) /\ WF_nrecv(Receives) /\ WF_vars(Idle) /\ WF_vars(ThreadRun)

(***************************************************************************)
(* The methods of a Tier called directly.  manage_tier calls neither       *)
(* make_new_file nor drop_access_points; here a caller holding a Tier      *)
(* calls its methods in any order, and the threads they start run.         *)
(***************************************************************************)
\* an index as saved, every file with access_count k
RECURSIVE Counted(_, _)
Counted(tree, k) ==
    [n \in DOMAIN tree |->
        IF tree[n].type = "dir"
        THEN [type |-> "dir", size |-> tree[n].size, contents |-> Counted(tree[n].contents, k)]
        ELSE [type |-> "file", size |-> tree[n].size, access_count |-> k]]

\* the saved indexes a caller applies
SavedIndexes == { ("A" :> Counted(TreeFull, k)) : k \in { 1, 2 } }

MaxCalls == 3

\* the limits a tier is configured with
SpaceLimits == { 0, SpaceLimit }

\* the threads of a fan-out that have ended when the caller looks
Fins == IF Len(order) > 1 THEN SUBSET Range(order) ELSE { Range(order) }

InitApi ==
    /\ \E tier \in Tiers, limit \in SpaceLimits :
          /\ order = tier.order
          /\ tier_settings = [fill_method |-> tier.fill_method, max_index_age |-> MaxIndexAge,
                               available_space_file_limit |-> limit, drop_time |-> DropTime]
          /\ drives = Tier(tier.drives, 0)
    /\ ws = "READY"
    /\ pipe_in = << >>
    /\ pipe_out = << >>
    /\ nrecv = 0
    /\ nsent = 0
    /\ tasks = {}
    /\ now = 0
    /\ last = [tag |-> "", arg |-> << >>, exc |-> "", val |-> PyNone]
    /\ prev_drop_time = 0

\* the caller gets r back from the method tag called with arg; nsent counts the calls
Returns(tag, arg, r) ==
    /\ nsent < MaxCalls
    /\ nsent' = nsent + 1
    /\ drives' = r.drv
    /\ tasks' = tasks \cup r.spawned
    /\ last' = [tag |-> tag, arg |-> arg, exc |-> r.exc, val |-> r.val]
    /\ UNCHANGED << order, tier_settings, ws, pipe_in, pipe_out, nrecv, now, prev_drop_time >>

Call_make_new_file ==
    \E path \in { P_dg, P_g, P_df }, pick \in Range(order) :
        Returns("make_new_file", path, Tier_make_new_file(drives, path, now, pick))

\* arg: the drives whose call has run when the method returns
Call_drop_access_points ==
    \E fin \in Fins :
        Returns("drop_access_points", fin, Tier_drop_access_points(drives, fin, now))

Call_apply_index ==
    \E index \in SavedIndexes :
        Returns("apply_index", index, apply_index(drives, index))

Call_open_file ==
    \E path \in { P_df, P_x }, fin \in Fins :
        Returns("open_file", path, Tier_open_file(drives, path, fin, now))

Call_copy_file ==
    \E pick \in Range(order) :
        Returns("copy_file", << P_df, P_dg >>,
                Tier_copy_file(drives, P_df, P_dg, now, FALSE, pick))

Call_index ==
    \E fin \in Fins : Returns("index", fin, Tier_index(drives, fin, now))

\* _set_index(get_index()) on one drive
Call_set_index ==
    \E n \in Range(order) :
        Returns("_set_index", n,
                OnDrive(drives, n, _set_index(drives[n], get_index(drives[n]))))

NextApi ==
    \/ Call_make_new_file
    \/ Call_drop_access_points
    \/ Call_apply_index
    \/ Call_open_file
    \/ Call_copy_file
    \/ Call_index
    \/ Call_set_index
    \/ ThreadRun

SpecApi == InitApi /\ [][NextApi]_vars

(***************************************************************************)
(* The methods of one Interface called directly, with any path text.       *)
(***************************************************************************)
MaxPathLen == 4

\* the characters of the paths: the separator, the mount point's name, the names on it
Alphabet == { SLASH, "A", "d", "f" }

Paths == UNION { [1..k -> Alphabet] : k \in 0..MaxPathLen }

\* the paths files are deleted at
DeletePaths == { P_f, P_df, P_x, << "d" >>, << "/", "A", "/", "f" >> }

InitDrive ==
    /\ order = << "A" >>
    /\ tier_settings = [fill_method |-> "random", max_index_age |-> MaxIndexAge,
                         available_space_file_limit |-> SpaceLimit, drop_time |-> DropTime]
    /\ \E disk \in { TreeFull, TreeBare } : drives = Tier("A" :> Device("A", Mega + 4, disk), 0)
    /\ ws = "READY"
    /\ pipe_in = << >>
    /\ pipe_out = << >>
    /\ nrecv = 0
    /\ nsent = 0
    /\ tasks = {}
    /\ now = 0
    /\ last = [tag |-> "", arg |-> << >>, exc |-> "", val |-> PyNone]
    /\ prev_drop_time = 0

Drive_get_node ==
    \E path \in Paths :
        Returns("get_node", path,
                OnDrive(drives, "A", DriveCall("get_node", drives["A"], path, now)))

Drive_delete_file ==
    \E path \in DeletePaths :
        Returns("delete_file", path, OnDrive(drives, "A", delete_file(drives["A"], path, now)))

Drive_refresh_index ==
    Returns("refresh_index", << >>, OnDrive(drives, "A", refresh_index(drives["A"], now)))

NextDrive ==
    \/ Drive_get_node
    \/ Drive_delete_file
    \/ Drive_refresh_index
    \/ Tick

SpecDrive == InitDrive /\ [][NextDrive]_vars

(***************************************************************************)
(* What the properties below speak of                                      *)
(***************************************************************************)
\* this step is manage_tier receiving and serving the command at the head of the pipe
RecvStep == nrecv' = nrecv + 1
CmdTag == Upper(Head(pipe_in).tag)
CmdArg == Head(pipe_in).arg

\* exactly one message is sent in this step, and it is v
SendsOnly(v) == pipe_out' = Append(pipe_out, [for |-> nrecv', val |-> v])

\* the drives whose live index resolves path
Holders(drv, path) == { n \in Range(order) : check_file_exists(drv[n], path).val }

\* the file is on the device of drive n
OnDisk(drv, n, path) == TreeHas(drv[n].disk, DiskPath(_get_relative_path(drv[n], path).val))

\* the size the index of the first drive holding path gives it
SizeOf(drv, path) ==
    get_node(drv[CHOOSE n \in Holders(drv, path) :
                    \A m \in Holders(drv, path) :
                       \E i, j \in 1..Len(order) : order[i] = n /\ order[j] = m /\ i <= j],
             path).val.size

(***************************************************************************)
(* Properties                                                              *)
(***************************************************************************)

\* C1: a command other than STARTUP received while UNINITIALIZED is answered with an
\* error response, and the worker stays UNINITIALIZED (it does not crash).
C1_NotReadyBeforeStartup ==
    [][ (RecvStep /\ ws = "UNINITIALIZED" /\ CmdTag # "STARTUP")
        => /\ ws' = "UNINITIALIZED"
           /\ Len(pipe_out') = Len(pipe_out) + 1
           /\ Last(pipe_out').val.t = "ERROR" ]_vars

\* C2: after STARTUP every command other than SHUTDOWN gets exactly one response, and
\* the k-th response on the channel answers the k-th command.
C2_OneResponsePerCommand ==
    [][ (RecvStep /\ ws = "READY" /\ CmdTag # "SHUTDOWN")
        => /\ Len(pipe_out') = Len(pipe_out) + 1
           /\ Last(pipe_out').for = nrecv'
           /\ Len(pipe_out') = nrecv' ]_vars

\* C3: DELETE_FILE for a path that no drive's index holds is answered with
\* {ERROR: FILE_NOT_FOUND} and the worker stays READY.
C3_DeleteAbsentAnswered ==
    [][ (RecvStep /\ ws = "READY" /\ CmdTag = "DELETE_FILE" /\ Holders(drives, CmdArg) = {})
        => /\ ws' = "READY"
           /\ SendsOnly(PyDict("ERROR", "FILE_NOT_FOUND")) ]_vars

\* C4: SHUTDOWN received in READY snapshots every drive's index, detaches every drive,
\* sends the consolidated index (one entry per drive) and then {SHUTDOWN: true}, and
\* terminates; after that nothing is sent and no command is served.
C4_ShutdownSequence ==
    [][ /\ (RecvStep /\ ws = "READY" /\ CmdTag = "SHUTDOWN")
           => /\ ws' = "TERMINATED"
              /\ pipe_out' = pipe_out \o
                   << [for |-> nrecv', val |-> PyIndex([n \in Range(order) |-> drives[n].index])],
                      [for |-> nrecv', val |-> PyDict("SHUTDOWN", TRUE)] >>
              /\ \A n \in Range(order) :
                    ~drives'[n].attached /\ drives'[n].index = drives[n].index
        /\ ws = "TERMINATED"
           => ws' = "TERMINATED" /\ pipe_out' = pipe_out /\ nrecv' = nrecv ]_vars

\* C5: a command whose tag is not in the command set is answered with
\* {ERROR: COMMAND_NOT_RECOGNIZED} and changes neither the lifecycle state nor the
\* drives nor any index.
C5_UnrecognizedChangesNothing ==
    [][ (RecvStep /\ CmdTag \notin KnownTags)
        => /\ SendsOnly(PyDict("ERROR", "COMMAND_NOT_RECOGNIZED"))
           /\ ws' = ws
           /\ drives' = drives
           /\ tasks' = tasks ]_vars

\* C5 witness: a READY worker has answered an unrecognized command.
C5_Witness ==
    /\ ws = "READY"
    /\ last.tag = "BOGUS"
    /\ Last(pipe_out) = [for |-> nrecv, val |-> PyDict("ERROR", "COMMAND_NOT_RECOGNIZED")]

\* C6: in a single-drive tier, copying an indexed file is refused for lack of space
\* exactly when free_space(drive) < size(f): with free_space >= size(f) the copy is
\* not refused, otherwise it fails OutOfSpace and nothing changes.
C6_SingleDriveCopyIffRoom ==
    [][ (/\ RecvStep /\ ws = "READY" /\ Len(order) = 1 /\ CmdTag = "COPY_FILE"
         /\ Holders(drives, CmdArg[1]) # {})
        => IF get_free(drives[order[1]]) >= SizeOf(drives, CmdArg[1])
           THEN last'.exc # "OSError"
           ELSE last'.exc = "OSError" /\ drives' = drives ]_vars

\* C7: when the copy step of a move fails (no copy is made), the delete step is not
\* performed: the source file and its index node are still there.
C7_MoveKeepsSourceOnCopyFailure ==
    [][ (/\ RecvStep /\ ws = "READY" /\ CmdTag = "MOVE_FILE"
         /\ \A n \in Range(order) : ~OnDisk(drives', n, CmdArg[2]))
        => \A n \in Range(order) :
              /\ OnDisk(drives, n, CmdArg[1]) => OnDisk(drives', n, CmdArg[1])
              /\ n \in Holders(drives, CmdArg[1]) => n \in Holders(drives', CmdArg[1]) ]_vars

\* C8: a successful move leaves the destination node in the index with the access
\* count the source node had before the move plus 1.
C8_MoveAccumulatesAccessCount ==
    [][ (/\ RecvStep /\ ws = "READY" /\ CmdTag = "MOVE_FILE" /\ last'.exc = ""
         /\ Holders(drives, CmdArg[1]) # {}
         /\ \E n \in Range(order) : OnDisk(drives', n, CmdArg[2]))
        => \E n \in Holders(drives', CmdArg[2]), m \in Holders(drives, CmdArg[1]) :
              get_node(drives'[n], CmdArg[2]).val.access_count
                 = get_node(drives[m], CmdArg[1]).val.access_count + 1 ]_vars

\* C9: in a multi-drive tier copy_file fails with NotFound when no drive's index holds
\* src, and with OutOfSpace when src is resident and no drive has free space >= its
\* size; in both cases no device and no index changes.
C9_MultiDriveCopyFailures ==
    [][ (RecvStep /\ ws = "READY" /\ Len(order) > 1 /\ CmdTag = "COPY_FILE")
        => /\ Holders(drives, CmdArg[1]) = {}
              => last'.exc = "FileNotFoundError" /\ drives' = drives
           /\ (/\ Holders(drives, CmdArg[1]) # {}
               /\ \A n \in Range(order) : get_free(drives[n]) < SizeOf(drives, CmdArg[1]))
              => last'.exc = "OSError" /\ drives' = drives ]_vars

\* C9 witness: a two-drive tier has refused a copy of a resident file for lack of
\* space, no drive having as many free bytes as the file has.
C9_Witness ==
    /\ Len(order) > 1
    /\ last.tag = "COPY_FILE"
    /\ last.exc = "OSError"
    /\ Holders(drives, last.arg[1]) # {}
    /\ \A n \in Range(order) : get_free(drives[n]) < SizeOf(drives, last.arg[1])

\* C10: with fill_method largest_first, when no drive both holds the source and has
\* room for it, the copy is written to the eligible drive with the most free space,
\* the first such drive in configuration order.
C10_LargestFirstWritesCopy ==
    [][ (/\ RecvStep /\ ws = "READY" /\ Len(order) > 1 /\ CmdTag = "COPY_FILE"
         /\ tier_settings.fill_method = "largest_first"
         /\ Holders(drives, CmdArg[1]) # {})
        => LET size     == SizeOf(drives, CmdArg[1])
               eligible == { n \in Range(order) : get_free(drives[n]) >= size }
               best     == { n \in eligible :
                               \A m \in eligible : get_free(drives[n]) >= get_free(drives[m]) }
           IN  (eligible # {} /\ eligible \cap Holders(drives, CmdArg[1]) = {})
               => \E i \in 1..Len(order) :
                     /\ order[i] \in best
                     /\ \A j \in 1..(i - 1) : order[j] \notin best
                     /\ OnDisk(drives', order[i], CmdArg[2]) ]_vars

\* a call of the method tag has just returned
Called(tag) == nsent' = nsent + 1 /\ last'.tag = tag

\* the drives whose used space is below the configured limit
BelowLimit(drv) ==
    { n \in Range(order) :
        get_used(drv[n]) < tier_settings.available_space_file_limit * Mega }

\* C11: make_new_file fails with OSError (out of space) exactly when no drive of the tier
\* has used space below the limit, in a single-drive and in a multi-drive tier alike, and
\* it changes the contents of no drive whose used space is not below the limit
C11_NewFileBelowLimit ==
    [][ Called("make_new_file") =>
          /\ (last'.exc = "OSError") <=> (BelowLimit(drives) = {})
          /\ \A n \in Range(order) :
                drives'[n].disk # drives[n].disk => n \in BelowLimit(drives) ]_vars

\* C12: in a tier of two or more drives EXISTS(path) returns true exactly when some
\* drive's index holds path, whichever drive that is, and GET_FILE_INFO(path) returns the
\* node of a drive that holds path, or None when no drive does
C12_FanOutQueryHit ==
    [][ (RecvStep /\ ws = "READY" /\ Len(order) > 1) =>
          /\ CmdTag = "EXISTS" =>
                /\ last'.exc = ""
                /\ last'.val = PyBool(Holders(drives, CmdArg) # {})
          /\ CmdTag = "GET_FILE_INFO" =>
                /\ last'.exc = ""
                /\ last'.val \in
                      IF Holders(drives, CmdArg) = {} THEN { PyNone }
                      ELSE { PyNode(get_node(drives[n], CmdArg).val) :
                               n \in Holders(drives, CmdArg) } ]_vars

\* the commands a tier of two or more drives serves by a fan-out over its drives
FanOutTags == { "GET_FILE_INFO", "OPEN_FILE", "DELETE_FILE", "EXISTS", "REFRESH_INDEX",
                "MOVE_FILE" }

\* C13: when a fan-out returns to its caller, no per-drive task it started is still
\* running: serving a fan-out command leaves no thread behind that was not there before
C13_FanOutJoinsAll ==
    [][ (RecvStep /\ ws = "READY" /\ Len(order) > 1 /\ CmdTag \in FanOutTags) =>
          tasks' \subseteq tasks ]_vars

\* the drive method a fan-out command calls on every drive
FanOutFunc(tag) ==
    CASE tag = "EXISTS" -> "check_file_exists"
      [] tag = "GET_FILE_INFO" -> "get_node"
      [] tag = "OPEN_FILE" -> "open_file"
      [] tag = "DELETE_FILE" -> "delete_file"
      [] tag = "REFRESH_INDEX" -> "refresh_index"

\* what the call of the command at the head of the pipe does on drive n
HeadCall(n) == DriveCall(FanOutFunc(CmdTag), drives[n], CmdArg, now)

\* C14: in a tier of two or more drives, when the call of a fan-out command fails on one
\* drive and succeeds on another, the command ends without an exception, the worker stays
\* READY, and the result is the result of a drive whose call succeeded
C14_PartialFailureTolerated ==
    [][ ( /\ RecvStep /\ ws = "READY" /\ Len(order) > 1
          /\ CmdTag \in FanOutTags \ { "MOVE_FILE" }
          /\ \E n \in Range(order) : HeadCall(n).exc # ""
          /\ \E n \in Range(order) : HeadCall(n).exc = "" ) =>
          /\ last'.exc = ""
          /\ ws' = "READY"
          /\ last'.val \in { HeadCall(n).val : n \in { m \in Range(order) : HeadCall(m).exc = "" } }
      ]_vars

\* get_node(path)["access_count"] on drive n of drv
AccessCount(drv, n, path) == get_node(drv[n], path).val.access_count

\* C15: an OPEN_FILE that returns a stream raises the access_count of the file in the live
\* index of a drive that holds it by exactly one; an OPEN_FILE that fails changes no counter
C15_OpenCountsAccess ==
    [][ (RecvStep /\ ws = "READY" /\ CmdTag = "OPEN_FILE") =>
          IF last'.exc = "" /\ last'.val = PyStream
          THEN \E n \in Holders(drives, CmdArg) :
                   AccessCount(drives', n, CmdArg) = AccessCount(drives, n, CmdArg) + 1
          ELSE \A n \in Holders(drives, CmdArg) :
                   AccessCount(drives', n, CmdArg) = AccessCount(drives, n, CmdArg) ]_vars

\* the drives on which a call of drop_access_points that has just returned has run
Dropped == IF Len(order) > 1 THEN last'.arg ELSE Range(order)

\* C16: a decay pass on a drive lowers the access_count of every file node of that drive's
\* index, at any depth, by one but not below zero, and leaves every directory node and the
\* set of paths as they were (so N passes leave max(0, original - N))
C16_DecayLowersCounts ==
    [][ Called("drop_access_points") =>
          /\ last'.exc = ""
          /\ \A n \in Dropped :
                /\ TreePaths(drives'[n].index) = TreePaths(drives[n].index)
                /\ \A p \in TreePaths(drives[n].index) :
                      IF TreeGet(drives[n].index, p).type = "file"
                      THEN /\ TreeGet(drives'[n].index, p).type = "file"
                           /\ TreeGet(drives'[n].index, p).access_count =
                                 IF TreeGet(drives[n].index, p).access_count > 0
                                 THEN TreeGet(drives[n].index, p).access_count - 1
                                 ELSE 0
                      ELSE TreeGet(drives'[n].index, p).type = "dir" ]_vars

Pending(k) == nsent >= k /\ nrecv = k - 1 /\ pipe_in # << >> /\ ws = "READY"

\* a response to the k-th command has been sent
Answered(k) == \E i \in DOMAIN pipe_out : pipe_out[i].for = k

\* C18: every command that arrives at a READY worker is eventually received and
\* answered, whatever refreshes are due or running
C18_PendingCommandAnswered ==
    \A k \in 1..MaxCmds : Pending(k) ~> Answered(k)

\* how far along its life the worker is; a worker ended by an exception is at the end
LifecycleRank(w) ==
    CASE w = "UNINITIALIZED" -> 0
      [] w = "READY" -> 1
      [] w = "SHUTTING_DOWN" -> 2
      [] OTHER -> 3

\* C19: the worker's state only moves forward, READY is entered only by serving STARTUP
\* and TERMINATED only by serving SHUTDOWN, and a STARTUP served by a READY worker leaves
\* the tier's drive handles, their indexes and the running threads as they are
C19_LifecycleForward ==
    [][ /\ ws' # ws => LifecycleRank(ws') > LifecycleRank(ws)
        /\ (ws' = "READY" /\ ws # "READY") => (RecvStep /\ CmdTag = "STARTUP")
        /\ (ws' = "TERMINATED" /\ ws # "TERMINATED") => (RecvStep /\ CmdTag = "SHUTDOWN")
        /\ (RecvStep /\ ws = "READY" /\ CmdTag = "STARTUP") =>
              (drives' = drives /\ tasks' = tasks) ]_vars

\* the drives that hold path and have at least as many free bytes as the file has
ResidentWithRoom(drv, path) ==
    { n \in Holders(drv, path) : get_free(drv[n]) >= SizeOf(drv, path) }

\* C20: in a tier of two or more drives, when some drive both holds src and has free
\* space >= size(src), copy_file is not refused for lack of space, the copy it makes is on
\* such a drive, and no other drive's contents or index change, whatever the fill method
C20_CopyOnResidentDrive ==
    [][ (/\ RecvStep /\ ws = "READY" /\ Len(order) > 1 /\ CmdTag = "COPY_FILE"
         /\ ResidentWithRoom(drives, CmdArg[1]) # {})
        => /\ last'.exc # "OSError"
           /\ \A n \in Range(order) \ ResidentWithRoom(drives, CmdArg[1]) :
                 drives'[n] = drives[n]
           /\ (last'.exc = "" /\ last'.val # PyBool(FALSE)) =>
                 \E n \in ResidentWithRoom(drives, CmdArg[1]) :
                     OnDisk(drives', n, CmdArg[2]) ]_vars

\* the drives with at least as many free bytes as the file at path has
Eligible(drv, path) == { n \in Range(order) : get_free(drv[n]) >= SizeOf(drv, path) }

\* C21: with a fill_method that is neither random nor largest_first, a copy_file that has
\* to go to another drive (no drive both holds src and has room) does not fail: the copy
\* is written to a drive of the eligible set
C21_UnknownFillMethodCopies ==
    [][ (/\ RecvStep /\ ws = "READY" /\ Len(order) > 1 /\ CmdTag = "COPY_FILE"
         /\ tier_settings.fill_method \notin { "random", "largest_first" }
         /\ Holders(drives, CmdArg[1]) # {}
         /\ Eligible(drives, CmdArg[1]) # {}
         /\ Eligible(drives, CmdArg[1]) \cap Holders(drives, CmdArg[1]) = {})
        => /\ last'.exc = ""
           /\ \E n \in Eligible(drives, CmdArg[1]) : OnDisk(drives', n, CmdArg[2]) ]_vars

\* the step has put a copy at path on a drive that had none
CopyMade(path) ==
    \E n \in Range(order) : ~OnDisk(drives, n, path) /\ OnDisk(drives', n, path)

\* delete_file(path) raises on every drive that holds path (the copy step leaves the
\* source and its index node as they are, so the call is the one the delete step makes)
DeleteFails(path) ==
    \A n \in Holders(drives, path) : delete_file(drives[n], path, now).exc # ""

\* C22: when the copy step of a MOVE_FILE succeeds and its delete step fails, the source
\* and the copy both remain, and the worker answers the command with a result that is
\* not the result of a successful move (None)
C22_MoveReportsFailedDelete ==
    [][ (/\ RecvStep /\ ws = "READY" /\ CmdTag = "MOVE_FILE"
         /\ CopyMade(CmdArg[2])
         /\ DeleteFails(CmdArg[1]))
        => /\ \A n \in Range(order) :
                 OnDisk(drives, n, CmdArg[1]) => OnDisk(drives', n, CmdArg[1])
           /\ \E i \in DOMAIN pipe_out' :
                 pipe_out'[i].for = nrecv' /\ pipe_out'[i].val # PyNone ]_vars

\* C23: for every drive index_time never decreases, and it increases with every change
\* of the index tree (a file created, deleted, copied or moved, a refresh, an applied
\* saved index) made after the time of the last stamp
C23_IndexTimeFollowsChanges ==
    [][ \A n \in Range(order) :
          /\ drives'[n].index_time >= drives[n].index_time
          /\ (drives'[n].index # drives[n].index /\ now > drives[n].index_time) =>
                drives'[n].index_time > drives[n].index_time ]_vars

\* C24: get_node(path) returns the node reached by descending the index one component of
\* the path at a time (the path taken relative to the mount point), and fails with
\* FileNotFoundError when a component is absent or a component before the last is a file:
\* it returns a node exactly for the paths that are in the index
C24_GetNodeResolves ==
    [][ Called("get_node") =>
          LET path   == last'.arg
              prefix == drives["A"].prefix
              under  == Take(path, Len(prefix) + 1) \in { prefix, prefix \o << SLASH >> }
              rel    == IF under THEN Drop(path, Len(prefix) + 1)
                        ELSE IF Len(path) > 0 /\ path[1] = SLASH THEN Drop(path, 1)
                        ELSE path
              comps  == Split(rel, SLASH)
          IN  IF TreeHas(drives["A"].index, comps)
              THEN last'.exc = "" /\ last'.val = PyNode(TreeGet(drives["A"].index, comps))
              ELSE last'.exc = "FileNotFoundError" ]_vars

\* C25: a delete_file(p) that removes an indexed file, at any depth, ends without an
\* exception and leaves p unresolvable in the live index while every other file resolves
\* to the same node and every directory stays; a delete_file of a path that does not
\* resolve fails with FileNotFoundError and changes nothing
C25_DeleteUnlinksOnlyTarget ==
    [][ Called("delete_file") =>
          IF get_node(drives["A"], last'.arg).exc = ""
          THEN (OnDisk(drives, "A", last'.arg) /\ ~OnDisk(drives', "A", last'.arg)) =>
                  /\ last'.exc = ""
                  /\ ~check_file_exists(drives'["A"], last'.arg).val
                  /\ \A q \in TreePaths(drives["A"].index) :
                        \/ q = Split(_get_relative_path(drives["A"], last'.arg).val, SLASH)
                        \/ /\ TreeHas(drives'["A"].index, q)
                           /\ TreeGet(drives'["A"].index, q).type = TreeGet(drives["A"].index, q).type
                           /\ TreeGet(drives["A"].index, q).type = "file" =>
                                 TreeGet(drives'["A"].index, q) = TreeGet(drives["A"].index, q)
          ELSE last'.exc = "FileNotFoundError" /\ drives' = drives ]_vars

\* the commands that are served by calls on the drives
DriveTags == KnownTags \ { "STARTUP", "GET_DRIVE_NAMES" }

\* C26: two tasks are never running on the same drive at the same time, and no command
\* is served on the drives while a refresh thread of a drive is running
C26_OneTaskPerDrive ==
    [][ /\ \A k1 \in tasks', k2 \in tasks' : k1.drive = k2.drive => k1 = k2
        /\ (RecvStep /\ ws = "READY" /\ CmdTag \in DriveTags) =>
              \A k \in tasks : k.func # "refresh_index" ]_vars

\* a turn of Idle in a READY worker that has started a thread
IdleTurn == ws = "READY" /\ pipe_in = << >> /\ nrecv' = nrecv /\ tasks' # tasks /\ tasks \subseteq tasks'

\* C27: in the idle loop of a READY worker a decay pass is made when and only when
\* now - prev_drop_time >= drop_time, and the pass sets prev_drop_time to the current time
C27_DecayWhenDue ==
    [][ IdleTurn =>
          IF now - prev_drop_time >= tier_settings.drop_time
          THEN prev_drop_time' = now
          ELSE prev_drop_time' = prev_drop_time ]_vars

StillThere(drv, n) ==
    { p \in TreePaths(drv[n].index) :
        /\ TreeGet(drv[n].index, p).type = "file"
        /\ TreeHas(Visible(drv[n]), p)
        /\ TreeGet(Visible(drv[n]), p).type = "file" }

\* C29: a refresh keeps the access_count of every file that was in the index before it
\* and is still on the drive; only files found for the first time get access_count 0
C29_RefreshKeepsCounts ==
    [][ Called("index") =>
          \A p \in StillThere(drives, order[1]) :
              /\ TreeHas(drives'[order[1]].index, p)
              /\ TreeGet(drives'[order[1]].index, p).access_count
                    = TreeGet(drives[order[1]].index, p).access_count ]_vars

\* C30: a DUMP_INDEX served by the ready worker sends one snapshot per drive and leaves
\* every drive as it was: still attached, its index and its device unchanged
C30_DumpIndexOnlyReads ==
    [][ (RecvStep /\ ws = "READY" /\ CmdTag = "DUMP_INDEX") =>
          /\ drives' = drives
          /\ SendsOnly(PyIndex([n \in Range(order) |-> drives[n].index])) ]_vars

\* the STARTUP, the first command of the pipe, has been answered with True
StartupAcknowledged ==
    \E i \in DOMAIN pipe_out : pipe_out[i] = [for |-> 1, val |-> PyBool(TRUE)]

\* C31: while the worker is UNINITIALIZED and its pipe is empty, no step starts a
\* refresh, touches a drive or the decay time, or ends the worker; hence, with init
\* starting the worker and then sending STARTUP, the worker eventually is READY and has
\* acknowledged the STARTUP
C31_StartupReachesReady ==
    /\ [][ (ws = "UNINITIALIZED" /\ pipe_in = << >>) =>
              /\ ws' = "UNINITIALIZED"
              /\ tasks' = tasks
              /\ drives' = drives
              /\ prev_drop_time' = prev_drop_time ]_vars
    /\ <>(ws = "READY" /\ StartupAcknowledged)
====
